---- MODULE Spec2Model ----
(***************************************************************************)
(* Model of the type-state bank account of package bank                    *)
(* (src/unnamed/part_000).                                                 *)
(*                                                                         *)
(* An *Account[State] is a heap object: `accounts` is the heap, an index   *)
(* into it is a pointer.  The State type argument is a compile-time tag;   *)
(* the model carries it as the field State of the object so that the type  *)
(* constraints of the public functions (CanDeposit, CanActivate, ...) can  *)
(* be evaluated: a call whose constraint is not satisfied does not build,  *)
(* so the action that models it is not enabled.                            *)
(*                                                                         *)
(* The sealed methods are declared with a receiver `*Account[X]` where X   *)
(* is only the NAME of the receiver's type parameter, so every method      *)
(* exists for every state; the model therefore defines them on any         *)
(* account and leaves the state restriction to the constraints alone.      *)
(*                                                                         *)
(* Balance and amounts are float64 in the source.  The model draws them    *)
(* from small integers, on which float64 addition, subtraction and         *)
(* comparison are exact; NaN, the infinities and rounding are outside it.  *)
(***************************************************************************)
EXTENDS Integers, Sequences, FiniteSets

\* ------------------------------------------------------------------ bounds
\* The number of public calls one run makes, and the largest amount it passes.
MaxCalls == 4
MaxAmount == 2

IDs == {"ACT-1", "PND-1"}
\* Amounts include a negative one: the API takes any float64.
Amounts == (0 - 1)..MaxAmount
InitialBalances == {0, 1}

\* ------------------------------------------------------- state markers
active == "active"
closed == "closed"
pending == "pending"

state == {active, pending, closed}
pendingOrClosed == {pending, closed}

VARIABLES
    accounts,     \* the heap: a sequence of [State, ID, Balance]
    origin,       \* per object: the object it was allocated from (0: constructed)
    constructed,  \* the account as its owner constructed it
    last,         \* the most recent call, its argument before it, its results
    expr,         \* the nested call expression whose value is last.ret
    ncalls,       \* the number of calls made so far
    ledger,       \* the sums deposited and withdrawn through the current handle
    threads,      \* the goroutines sharing accounts[1], each inside one call
    queue         \* the caller's variables of package enums

vars == <<accounts, origin, constructed, last, expr, ncalls, ledger, threads, queue>>

\* The state of the parts of the program a specification does not run.
NoThreads == <<>>
NoQueue == [op |-> "none"]

\* ------------------------------------------------------ the Account type
Account(S, id, balance) == [State |-> S, ID |-> id, Balance |-> balance]

\* ------------------------------------------------- capability constraints
\* A constraint holds of an account when its type is *Account[T] for a T in
\* the constraint's type set (the method half holds of every account).
CanDepositAnyState(a) == a.State \in state
CanDeposit(a) == a.State \in {active}

CanWithdraw(a) == a.State \in {active}

CanClose(a) == a.State \in {active}

CanWithdrawAndClose(a) == CanWithdraw(a) /\ CanClose(a)

CanActivatePendingOnly(a) == a.State \in {pending}
CanActivate(a) == a.State \in pendingOrClosed

\* ----------------------------------------------------------- sealed methods
\* A method with a pointer receiver may write its receiver: each operator
\* gives the receiver after the call (self) beside what the call returns.
depositOverwrite(a, amount) == [self |-> [a EXCEPT !.Balance = amount]]
deposit(a, amount) == [self |-> [a EXCEPT !.Balance = a.Balance + amount]]

withdrawStrict(a, amount) ==
    IF a.Balance > amount
    THEN [self |-> [a EXCEPT !.Balance = a.Balance - amount], ok |-> TRUE]
    ELSE [self |-> a, ok |-> FALSE]
withdraw(a, amount) ==
    IF a.Balance >= amount
    THEN [self |-> [a EXCEPT !.Balance = a.Balance - amount], ok |-> TRUE]
    ELSE [self |-> a, ok |-> FALSE]

closeNoBalance(a) == [self |-> a, ret |-> Account(closed, a.ID, 0)]
closeConsuming(a) ==
    [self |-> [a EXCEPT !.Balance = 0], ret |-> Account(closed, a.ID, a.Balance)]
close(a) == [self |-> a, ret |-> Account(closed, a.ID, a.Balance)]

activateNoID(a) == [self |-> a, ret |-> Account(active, "", a.Balance)]
activateKeepsState(a) == [self |-> a, ret |-> Account(a.State, a.ID, a.Balance)]
activate(a) == [self |-> a, ret |-> Account(active, a.ID, a.Balance)]

GetBalance(a) == a.Balance
GetID(a) == a.ID

\* --------------------------------------------------- public API functions
\* Each gives the argument after the call (self) and the call's results.
Deposit(a, amount) == deposit(a, amount)

WithdrawNoWrite(a, amount) == [self |-> a, ok |-> withdraw(a, amount).ok]
Withdraw(a, amount) == withdraw(a, amount)

WithdrawAndCloseIfOk(a, amount) ==
    LET w == withdraw(a, amount)
    IN  IF w.ok THEN close(w.self) ELSE [self |-> a, ret |-> Account(active, a.ID, a.Balance)]
WithdrawAndClose(a, amount) ==
    LET w == withdraw(a, amount)
    IN  close(w.self)

CloseZeroValue(a) == [self |-> a, ret |-> Account(closed, "", 0)]
Close(a) == close(a)

Activate(a) == activate(a)

ActivatePending(a) == activate(a)

ActivateClosed(a) == activate(a)

\* ------------------------------------------------------------------ calls
Call(op, i, amount, ok, ret) ==
    [op |-> op, acc |-> i, amount |-> amount, ok |-> ok, ret |-> ret,
     before |-> accounts[i], panic |-> FALSE]

\* The expression op(e) when i is the value of e, op(i) otherwise.
Nest(op, i) ==
    IF last.ret = i /\ expr.ops # <<>>
    THEN [arg |-> expr.arg, ops |-> Append(expr.ops, op)]
    ELSE [arg |-> accounts[i], ops |-> <<op>>]

NoExpr == [arg |-> constructed, ops |-> <<>>]

\* The ledger after a call on object i that leaves the caller with handle h.
\* It is kept while every call is made on the handle the caller got last.
NoLedger == [linear |-> FALSE, handle |-> 0, deposited |-> 0, withdrawn |-> 0]

Ledger(i, h, deposit_, withdrawal) ==
    IF ledger.linear /\ i = ledger.handle
    THEN [linear |-> TRUE, handle |-> h,
          deposited |-> ledger.deposited + deposit_,
          withdrawn |-> ledger.withdrawn + withdrawal]
    ELSE NoLedger

\* A call that mutates its argument in place and allocates nothing.
InPlaceShared(op, i, amount, self, ok) ==
    /\ ncalls < MaxCalls
    /\ accounts' = [j \in DOMAIN accounts |->
                        IF j = i \/ origin[j] = i
                        THEN [accounts[j] EXCEPT !.Balance = self.Balance]
                        ELSE accounts[j]]
    /\ last' = Call(op, i, amount, ok, 0)
    /\ expr' = NoExpr
    /\ ncalls' = ncalls + 1
    /\ ledger' = Ledger(i, i, IF op = "Deposit" THEN amount ELSE 0,
                         IF op = "Withdraw" /\ ok THEN amount ELSE 0)
    /\ UNCHANGED <<origin, constructed, threads, queue>>
InPlace(op, i, amount, self, ok) ==
    /\ ncalls < MaxCalls
    /\ accounts' = [accounts EXCEPT ![i] = self]
    /\ last' = Call(op, i, amount, ok, 0)
    /\ expr' = NoExpr
    /\ ncalls' = ncalls + 1
    /\ ledger' = Ledger(i, i, IF op = "Deposit" THEN amount ELSE 0,
                         IF op = "Withdraw" /\ ok THEN amount ELSE 0)
    /\ UNCHANGED <<origin, constructed, threads, queue>>

\* A call that returns a pointer to a newly allocated account.
Allocating(op, i, amount, r) ==
    /\ ncalls < MaxCalls
    /\ accounts' = Append([accounts EXCEPT ![i] = r.self], r.ret)
    /\ origin' = Append(origin, i)
    /\ last' = Call(op, i, amount, TRUE, Len(accounts) + 1)
    /\ expr' = Nest(op, i)
    /\ ncalls' = ncalls + 1
    /\ ledger' = Ledger(i, Len(accounts) + 1, 0,
                         IF op = "WithdrawAndClose" /\ amount <= accounts[i].Balance
                         THEN amount ELSE 0)
    /\ UNCHANGED <<constructed, threads, queue>>

CallDepositValidating(i, amount) ==
    /\ CanDeposit(accounts[i])
    /\ IF amount < 0
       THEN InPlace("Deposit", i, amount, accounts[i], FALSE)
       ELSE InPlace("Deposit", i, amount, Deposit(accounts[i], amount).self, TRUE)
CallDeposit(i, amount) ==
    /\ CanDeposit(accounts[i])
    /\ InPlace("Deposit", i, amount, Deposit(accounts[i], amount).self, TRUE)

CallWithdraw(i, amount) ==
    /\ CanWithdraw(accounts[i])
    /\ LET w == Withdraw(accounts[i], amount)
       IN  InPlace("Withdraw", i, amount, w.self, w.ok)

CallWithdrawAndClose(i, amount) ==
    /\ CanWithdrawAndClose(accounts[i])
    /\ Allocating("WithdrawAndClose", i, amount, WithdrawAndClose(accounts[i], amount))

CallClose(i) ==
    /\ CanClose(accounts[i])
    /\ Allocating("Close", i, 0, Close(accounts[i]))

CallActivate(i) ==
    /\ CanActivate(accounts[i])
    /\ Allocating("Activate", i, 0, Activate(accounts[i]))

CallActivatePending(i) ==
    /\ accounts[i].State = pending
    /\ Allocating("ActivatePending", i, 0, ActivatePending(accounts[i]))

CallActivateClosed(i) ==
    /\ accounts[i].State = closed
    /\ Allocating("ActivateClosed", i, 0, ActivateClosed(accounts[i]))

\* The universal accessors: no constraint, no write.
Accessor(op, i, v) ==
    /\ ncalls < MaxCalls
    /\ last' = [op |-> op, acc |-> i, amount |-> 0, ok |-> TRUE, ret |-> 0,
                before |-> accounts[i], panic |-> FALSE, value |-> v]
    /\ expr' = NoExpr
    /\ ncalls' = ncalls + 1
    /\ ledger' = Ledger(i, i, 0, 0)
    /\ UNCHANGED <<accounts, origin, constructed, threads, queue>>

CallGetBalance(i) == Accessor("GetBalance", i, GetBalance(accounts[i]))

CallGetID(i) == Accessor("GetID", i, GetID(accounts[i]))

\* A call whose argument is the nil pointer of type *Account[S]: it builds
\* when S satisfies the constraint, and the method's first statement reads a
\* field through its nil receiver, which panics.
NilOf(S) == [State |-> S]

Accepts(op, a) ==
    CASE op = "Deposit" -> CanDeposit(a)
      [] op = "Withdraw" -> CanWithdraw(a)
      [] op = "WithdrawAndClose" -> CanWithdrawAndClose(a)
      [] op = "Close" -> CanClose(a)
      [] op = "Activate" -> CanActivate(a)
      [] op = "ActivatePending" -> a.State = pending
      [] op = "ActivateClosed" -> a.State = closed
      [] op \in {"GetBalance", "GetID"} -> a.State \in state

PublicOps ==
    {"Deposit", "Withdraw", "WithdrawAndClose", "Close", "Activate",
     "ActivatePending", "ActivateClosed", "GetBalance", "GetID"}

CallOnNil(op, S) ==
    /\ ncalls < MaxCalls
    /\ Accepts(op, NilOf(S))
    /\ last' = [op |-> op, acc |-> 0, amount |-> 0, ok |-> FALSE, ret |-> 0,
                before |-> NilOf(S), panic |-> TRUE]
    /\ expr' = NoExpr
    /\ ncalls' = ncalls + 1
    /\ ledger' = NoLedger
    /\ UNCHANGED <<accounts, origin, constructed, threads, queue>>

\* ---------------------------------------------------------- specification
Init ==
    \E S \in state, id \in IDs, b \in InitialBalances :
        /\ accounts = <<Account(S, id, b)>>
        /\ origin = <<0>>
        /\ constructed = Account(S, id, b)
        /\ last = [op |-> "new", acc |-> 1, amount |-> 0, ok |-> TRUE, ret |-> 1,
                   before |-> Account(S, id, b), panic |-> FALSE]
        /\ expr = [arg |-> Account(S, id, b), ops |-> <<>>]
        /\ ncalls = 0
        /\ ledger = [linear |-> TRUE, handle |-> 1, deposited |-> 0, withdrawn |-> 0]
        /\ threads = NoThreads
        /\ queue = NoQueue

Next ==
    \E i \in DOMAIN accounts :
        \/ \E amount \in Amounts : CallDeposit(i, amount)
        \/ \E amount \in Amounts : CallWithdraw(i, amount)
        \/ \E amount \in Amounts : CallWithdrawAndClose(i, amount)
        \/ CallClose(i)
        \/ CallActivate(i)
        \/ CallActivatePending(i)
        \/ CallActivateClosed(i)

Spec == Init /\ [][Next]_vars

\* The same caller, who also reads through the accessors and may hold nil
\* pointers; a panic ends the run.
NextTotal ==
    \/ ~last.panic /\ Next
    \/ \E i \in DOMAIN accounts : ~last.panic /\ CallGetBalance(i)
    \/ \E i \in DOMAIN accounts : ~last.panic /\ CallGetID(i)
    \/ \E op \in PublicOps, S \in state : ~last.panic /\ CallOnNil(op, S)

SpecTotal == Init /\ [][NextTotal]_vars

TypeOK ==
    /\ ncalls \in 0..MaxCalls
    /\ Len(accounts) \in 1..(MaxCalls + 1)
    /\ Len(origin) = Len(accounts)
    /\ \A i \in DOMAIN accounts :
        /\ accounts[i].State \in state
        /\ accounts[i].Balance \in Int
        /\ origin[i] \in 0..(i - 1)

\* ------------------------------------------------------------ concurrency
\* Two goroutines, each making one Deposit or Withdraw on the same active
\* account accounts[1], with no lock.  A call is the loads and stores of
\* Balance its method makes, one step each.  The calls race, so a build may
\* keep the value withdraw's test loaded or load Balance again for the
\* subtraction: both are steps.
Threads == 1..2
ThreadOps == {"Deposit", "Withdraw"}

Other(t) == 3 - t
Busy(t) == threads[t].pc \notin {"call", "done"}

ThreadStep(t, pc, tmp, ok) ==
    threads' = [threads EXCEPT ![t] =
                   [op |-> @.op, amount |-> @.amount, pc |-> pc, tmp |-> tmp,
                    ok |-> ok, raced |-> @.raced \/ Busy(Other(t))]]

Unshared == <<origin, constructed, last, expr, ncalls, ledger, queue>>

\* deposit: the load of a.Balance += amount.
DepositLoad(t) ==
    /\ threads[t].pc = "call"
    /\ threads[t].op = "Deposit"
    /\ ThreadStep(t, "store", accounts[1].Balance, TRUE)
    /\ UNCHANGED <<accounts, Unshared>>

\* withdraw: if a.Balance >= amount.
WithdrawCheckStrict(t) ==
    /\ threads[t].pc = "call"
    /\ threads[t].op = "Withdraw"
    /\ IF accounts[1].Balance > threads[t].amount
       THEN ThreadStep(t, "sub", accounts[1].Balance, TRUE)
       ELSE ThreadStep(t, "done", accounts[1].Balance, FALSE)
    /\ UNCHANGED <<accounts, Unshared>>
WithdrawCheck(t) ==
    /\ threads[t].pc = "call"
    /\ threads[t].op = "Withdraw"
    /\ IF accounts[1].Balance >= threads[t].amount
       THEN ThreadStep(t, "sub", accounts[1].Balance, TRUE)
       ELSE ThreadStep(t, "done", accounts[1].Balance, FALSE)
    /\ UNCHANGED <<accounts, Unshared>>

\* withdraw: the load of a.Balance -= amount, made again.
WithdrawReload(t) ==
    /\ threads[t].pc = "sub"
    /\ ThreadStep(t, "store", accounts[1].Balance, TRUE)
    /\ UNCHANGED <<accounts, Unshared>>

\* withdraw: the load of a.Balance -= amount, taken from the test.
WithdrawReuse(t) ==
    /\ threads[t].pc = "sub"
    /\ ThreadStep(t, "store", threads[t].tmp, TRUE)
    /\ UNCHANGED <<accounts, Unshared>>

\* The store of a.Balance += amount or a.Balance -= amount; the call returns.
Store(t) ==
    /\ threads[t].pc = "store"
    /\ accounts' = [accounts EXCEPT ![1].Balance =
                       IF threads[t].op = "Deposit"
                       THEN threads[t].tmp + threads[t].amount
                       ELSE threads[t].tmp - threads[t].amount]
    /\ ThreadStep(t, "done", threads[t].tmp, threads[t].ok)
    /\ UNCHANGED Unshared

InitConc ==
    \E id \in IDs, b \in InitialBalances :
        /\ accounts = <<Account(active, id, b)>>
        /\ origin = <<0>>
        /\ constructed = Account(active, id, b)
        /\ last = [op |-> "new", acc |-> 1, amount |-> 0, ok |-> TRUE, ret |-> 1,
                   before |-> Account(active, id, b), panic |-> FALSE]
        /\ expr = [arg |-> Account(active, id, b), ops |-> <<>>]
        /\ ncalls = 0
        /\ ledger = NoLedger
        /\ queue = NoQueue
        /\ threads \in [Threads -> [op : ThreadOps, amount : Amounts, pc : {"call"},
                                    tmp : {0}, ok : {TRUE}, raced : {FALSE}]]

NextConc ==
    \E t \in Threads :
        \/ DepositLoad(t)
        \/ WithdrawCheck(t)
        \/ WithdrawReload(t)
        \/ WithdrawReuse(t)
        \/ Store(t)

SpecConc == InitConc /\ [][NextConc]_vars

\* What the two calls give when made one after the other, first then second.
CallOf(a, t) ==
    IF threads[t].op = "Deposit"
    THEN [self |-> Deposit(a, threads[t].amount).self, ok |-> TRUE]
    ELSE Withdraw(a, threads[t].amount)

Serial(first, second) ==
    LET r1 == CallOf(constructed, first)
        r2 == CallOf(r1.self, second)
    IN  [Balance |-> r2.self.Balance,
         ok |-> [t \in Threads |-> IF t = first THEN r1.ok ELSE r2.ok]]

Outcome ==
    [Balance |-> accounts[1].Balance, ok |-> [t \in Threads |-> threads[t].ok]]

BothDone == \A t \in Threads : threads[t].pc = "done"
Overlapped == \E t \in Threads : threads[t].raced

\* ------------------------------------------------------- the demo program
\* Package main (src/main.go) declares its own Account, markers, constraints
\* and methods; its Activate takes a pending account only.  Its objects live
\* in the same heap variable; main constructs three of them.
ActiveState == "ActiveState"
ClosedState == "ClosedState"
PendingState == "PendingState"

AccountState == {ActiveState, PendingState, ClosedState}

MainCanDeposit(a) == a.State \in {ActiveState}

MainCanWithdraw(a) == a.State \in {ActiveState}

MainCanClose(a) == a.State \in {ActiveState}

MainCanActivateOrClosed(a) == a.State \in {PendingState, ClosedState}
MainCanActivate(a) == a.State \in {PendingState}

MainDeposit(a, amount) == [self |-> [a EXCEPT !.Balance = a.Balance + amount]]

MainWithdraw(a, amount) ==
    IF a.Balance >= amount
    THEN [self |-> [a EXCEPT !.Balance = a.Balance - amount], ok |-> TRUE]
    ELSE [self |-> a, ok |-> FALSE]

MainClose(a) == [self |-> a, ret |-> Account(ClosedState, a.ID, a.Balance)]

MainActivate(a) == [self |-> a, ret |-> Account(ActiveState, a.ID, a.Balance)]

MainGetBalance(a) == a.Balance

MainGetID(a) == a.ID

\* The amounts main passes.
MainAmounts == {50, 25}

MainCallDeposit(i, amount) ==
    /\ MainCanDeposit(accounts[i])
    /\ InPlace("Deposit", i, amount, MainDeposit(accounts[i], amount).self, TRUE)

MainCallWithdraw(i, amount) ==
    /\ MainCanWithdraw(accounts[i])
    /\ LET w == MainWithdraw(accounts[i], amount)
       IN  InPlace("Withdraw", i, amount, w.self, w.ok)

MainCallClose(i) ==
    /\ MainCanClose(accounts[i])
    /\ Allocating("Close", i, 0, MainClose(accounts[i]))

MainCallActivate(i) ==
    /\ MainCanActivate(accounts[i])
    /\ Allocating("Activate", i, 0, MainActivate(accounts[i]))

MainCallGetBalance(i) == Accessor("GetBalance", i, MainGetBalance(accounts[i]))

MainCallGetID(i) == Accessor("GetID", i, MainGetID(accounts[i]))

activeAcc == Account(ActiveState, "ACT-123", 100)
closedAcc == Account(ClosedState, "CLS-456", 200)
pendingAcc == Account(PendingState, "PND-789", 50)

InitMain ==
    /\ accounts = <<activeAcc, closedAcc, pendingAcc>>
    /\ origin = <<0, 0, 0>>
    /\ constructed = activeAcc
    /\ last = [op |-> "new", acc |-> 1, amount |-> 0, ok |-> TRUE, ret |-> 1,
               before |-> activeAcc, panic |-> FALSE]
    /\ expr = [arg |-> activeAcc, ops |-> <<>>]
    /\ ncalls = 0
    /\ ledger = NoLedger
    /\ threads = NoThreads
    /\ queue = NoQueue

NextMain ==
    \E i \in DOMAIN accounts :
        \/ \E amount \in MainAmounts : MainCallDeposit(i, amount)
        \/ \E amount \in MainAmounts : MainCallWithdraw(i, amount)
        \/ MainCallClose(i)
        \/ MainCallActivate(i)
        \/ MainCallGetBalance(i)
        \/ MainCallGetID(i)

SpecMain == InitMain /\ [][NextMain]_vars

\* ------------------------------------------------------- package enums
\* The closed enum of src/unnamed/part_001.  A Go string and a []byte are
\* sequences of characters; a QueueType is [id |-> n], n a uint8.
StrFIFO == <<"F", "I", "F", "O">>
StrLIFO == <<"L", "I", "F", "O">>
StrPRIORITY == <<"P", "R", "I", "O", "R", "I", "T", "Y">>
StrROUND_ROBIN == <<"R", "O", "U", "N", "D", "_", "R", "O", "B", "I", "N">>
StrROUNDROBIN == <<"R", "O", "U", "N", "D", "R", "O", "B", "I", "N">>

fifo == [id |-> 1]
lifo == [id |-> 2]
priority == [id |-> 3]
roundRobin == [id |-> 4]

\* QueueType{}: the zero value.
ZeroQueueType == [id |-> 0]

FIFO == fifo
LIFO == lifo
Priority == priority
RoundRobin == roundRobin

Constructors == {FIFO, LIFO, Priority, RoundRobin}

NoError == <<>>

\* The result of String: the name, or the panic of the default branch.
StringTypo(q) ==
    CASE q.id = 1 -> [s |-> StrFIFO, panic |-> FALSE]
      [] q.id = 2 -> [s |-> StrLIFO, panic |-> FALSE]
      [] q.id = 3 -> [s |-> StrPRIORITY, panic |-> FALSE]
      [] q.id = 4 -> [s |-> StrROUNDROBIN, panic |-> FALSE]
      [] OTHER -> [s |-> <<>>, panic |-> TRUE]
String(q) ==
    CASE q.id = 1 -> [s |-> StrFIFO, panic |-> FALSE]
      [] q.id = 2 -> [s |-> StrLIFO, panic |-> FALSE]
      [] q.id = 3 -> [s |-> StrPRIORITY, panic |-> FALSE]
      [] q.id = 4 -> [s |-> StrROUND_ROBIN, panic |-> FALSE]
      [] OTHER -> [s |-> <<>>, panic |-> TRUE]

ParseQueueType(s) ==
    CASE s = StrFIFO -> [q |-> FIFO, err |-> NoError]
      [] s = StrLIFO -> [q |-> LIFO, err |-> NoError]
      [] s = StrPRIORITY -> [q |-> Priority, err |-> NoError]
      [] s = StrROUND_ROBIN -> [q |-> RoundRobin, err |-> NoError]
      [] OTHER -> [q |-> ZeroQueueType, err |-> <<"invalid queue type: ">> \o s]

\* encoding/json on the inputs of the model, none of which needs an escape:
\* Marshal of a string quotes it; Unmarshal into a string takes a quoted
\* string, leaves the string as it is on null, and fails on anything else.
Quote == "\""
JSONNull == <<"n", "u", "l", "l">>

JSONMarshalString(s) == <<Quote>> \o s \o <<Quote>>

JSONUnmarshalString(data) ==
    IF data = JSONNull THEN [s |-> <<>>, err |-> NoError]
    ELSE IF /\ Len(data) >= 2
            /\ data[1] = Quote
            /\ data[Len(data)] = Quote
            /\ \A k \in 2..(Len(data) - 1) : data[k] \notin {Quote, "\\"}
         THEN [s |-> SubSeq(data, 2, Len(data) - 1), err |-> NoError]
         ELSE [s |-> <<>>, err |-> <<"json: cannot unmarshal into string">>]

MarshalJSON(q) ==
    LET n == String(q)
    IN  IF n.panic THEN [data |-> <<>>, panic |-> TRUE]
        ELSE [data |-> JSONMarshalString(n.s), panic |-> FALSE]

\* The receiver after the call, and the error returned.
UnmarshalJSON(q, data) ==
    LET u == JSONUnmarshalString(data)
        parsed == ParseQueueType(u.s)
    IN  IF u.err # NoError THEN [q |-> q, err |-> u.err]
        ELSE IF parsed.err # NoError THEN [q |-> q, err |-> parsed.err]
        ELSE [q |-> parsed.q, err |-> NoError]

\* The strings and documents the caller passes: the names and near misses.
LowerOf ==
    [c \in {"F", "I", "O", "L", "P", "R", "T", "Y", "U", "N", "D", "B"} |->
        CASE c = "F" -> "f" [] c = "I" -> "i" [] c = "O" -> "o" [] c = "L" -> "l"
          [] c = "P" -> "p" [] c = "R" -> "r" [] c = "T" -> "t" [] c = "Y" -> "y"
          [] c = "U" -> "u" [] c = "N" -> "n" [] c = "D" -> "d" [] c = "B" -> "b"]

ToLower(s) ==
    [k \in DOMAIN s |-> IF s[k] \in DOMAIN LowerOf THEN LowerOf[s[k]] ELSE s[k]]

Names == {StrFIFO, StrLIFO, StrPRIORITY, StrROUND_ROBIN}

Strings ==
    Names
    \cup {ToLower(n) : n \in Names}
    \cup {SubSeq(n, 1, Len(n) - 1) : n \in Names}
    \cup {n \o <<" ">> : n \in Names}
    \cup {<<" ">> \o n : n \in Names}
    \cup {<<>>, StrROUNDROBIN}

Documents ==
    {JSONMarshalString(s) : s \in Strings}
    \cup Names
    \cup {<<Quote>> \o n : n \in Names}
    \cup {JSONNull, <<"1">>, <<>>}

\* The caller holds one QueueType variable q; queue records it with the
\* last call made: its argument, its outputs, and q before it.  A panic
\* ends the run: no call follows it.
Queue(q, op, arg, out, err, panic, echo) ==
    [q |-> q, op |-> op, arg |-> arg, out |-> out, err |-> err,
     panic |-> panic, prev |-> queue.q, echo |-> echo]

Bank == <<accounts, origin, constructed, last, expr, ncalls, ledger, threads>>

\* q = FIFO() and the like.
CallConstructor(c) ==
    /\ ~queue.panic
    /\ queue' = Queue(c, "new", <<>>, <<>>, NoError, FALSE, FALSE)
    /\ UNCHANGED Bank

\* q, err = ParseQueueType(s): q takes the returned value in both outcomes.
CallParseQueueType(s) ==
    /\ ~queue.panic
    /\ LET r == ParseQueueType(s)
       IN  queue' = Queue(r.q, "ParseQueueType", s, <<>>, r.err, FALSE, FALSE)
    /\ UNCHANGED Bank

\* q, err = ParseQueueType(q.String()), for a q whose String returned.
CallParseOfString ==
    /\ ~queue.panic
    /\ queue.op = "String"
    /\ LET r == ParseQueueType(queue.out)
       IN  queue' = Queue(r.q, "ParseQueueType", queue.out, <<>>, r.err, FALSE, TRUE)
    /\ UNCHANGED Bank

CallString ==
    /\ ~queue.panic
    /\ LET r == String(queue.q)
       IN  queue' = Queue(queue.q, "String", <<>>, r.s, NoError, r.panic, FALSE)
    /\ UNCHANGED Bank

CallMarshalJSON ==
    /\ ~queue.panic
    /\ LET r == MarshalJSON(queue.q)
       IN  queue' = Queue(queue.q, "MarshalJSON", <<>>, r.data, NoError, r.panic, FALSE)
    /\ UNCHANGED Bank

CallUnmarshalJSON(data) ==
    /\ ~queue.panic
    /\ LET r == UnmarshalJSON(queue.q, data)
       IN  queue' = Queue(r.q, "UnmarshalJSON", data, <<>>, r.err, FALSE, FALSE)
    /\ UNCHANGED Bank

\* q.UnmarshalJSON(b) for the b that MarshalJSON returned.
CallUnmarshalOfMarshal ==
    /\ ~queue.panic
    /\ queue.op = "MarshalJSON"
    /\ LET r == UnmarshalJSON(queue.q, queue.out)
       IN  queue' = Queue(r.q, "UnmarshalJSON", queue.out, <<>>, r.err, FALSE, TRUE)
    /\ UNCHANGED Bank

InitEnums ==
    /\ accounts = <<Account(active, "ACT-1", 0)>>
    /\ origin = <<0>>
    /\ constructed = Account(active, "ACT-1", 0)
    /\ last = [op |-> "new", acc |-> 1, amount |-> 0, ok |-> TRUE, ret |-> 1,
               before |-> Account(active, "ACT-1", 0), panic |-> FALSE]
    /\ expr = [arg |-> Account(active, "ACT-1", 0), ops |-> <<>>]
    /\ ncalls = 0
    /\ ledger = NoLedger
    /\ threads = NoThreads
    /\ \E c \in Constructors :
        queue = [q |-> c, op |-> "new", arg |-> <<>>, out |-> <<>>,
                 err |-> NoError, panic |-> FALSE, prev |-> c, echo |-> FALSE]

NextEnums ==
    \/ \E c \in Constructors : CallConstructor(c)
    \/ \E str \in Strings : CallParseQueueType(str)
    \/ CallParseOfString
    \/ CallString
    \/ CallMarshalJSON
    \/ \E data \in Documents : CallUnmarshalJSON(data)
    \/ CallUnmarshalOfMarshal

SpecEnums == InitEnums /\ [][NextEnums]_vars

\* ------------------------------------------------------------------ claims
Target == accounts[last.acc]
Returned == accounts[last.ret]

ActiveOps == {"Deposit", "Withdraw", "Close", "WithdrawAndClose"}
ActivateOps == {"Activate", "ActivatePending", "ActivateClosed"}
TransitionOps == ActivateOps \cup {"Close", "WithdrawAndClose"}

\* C1: every call that was accepted had its argument in an allowed source
\* state (Deposit, Withdraw, Close, WithdrawAndClose: active; Activate:
\* pending or closed; ActivatePending: pending; ActivateClosed: closed), and
\* no step changes the Balance or the tag of an object tagged pending or closed.
AcceptedInAllowedState ==
    /\ last.op \in ActiveOps => last.before.State = active
    /\ last.op = "Activate" => last.before.State \in {pending, closed}
    /\ last.op = "ActivatePending" => last.before.State = pending
    /\ last.op = "ActivateClosed" => last.before.State = closed

InactiveUntouched ==
    \A i \in DOMAIN accounts :
        accounts[i].State # active => accounts'[i] = accounts[i]

OperationsOnlyInAllowedStates ==
    []AcceptedInAllowedState /\ [][InactiveUntouched]_vars

\* A Deposit changed an active account that had been closed before: the
\* closed object still holds the Balance it was allocated with.
DepositBesideClosedSnapshot ==
    /\ last.op = "Deposit"
    /\ last.amount # 0
    /\ \E j \in DOMAIN accounts :
        /\ accounts[j].State = closed
        /\ origin[j] = last.acc
        /\ accounts[j].Balance = last.before.Balance
        /\ accounts[j].Balance # Target.Balance

\* C2: Withdraw succeeds exactly when amount <= Balance and then subtracts
\* the amount; otherwise it fails and leaves Balance as it was.  The ID is
\* the same afterwards in both cases.
WithdrawIffSufficient ==
    last.op = "Withdraw" =>
        /\ last.ok <=> last.amount <= last.before.Balance
        /\ last.ok => Target.Balance = last.before.Balance - last.amount
        /\ ~last.ok => Target.Balance = last.before.Balance
        /\ Target.ID = last.before.ID
        /\ Target.State = last.before.State

\* A Withdraw of more than the Balance has failed.
WithdrawRefused ==
    /\ last.op = "Withdraw"
    /\ last.amount > last.before.Balance
    /\ ~last.ok
    /\ last.before.Balance > 0

\* C3: the Balance of every account object is >= 0 (the account was
\* constructed with Balance >= 0).
BalanceNonNegative ==
    \A i \in DOMAIN accounts : accounts[i].Balance >= 0

\* C4: WithdrawAndClose(a, amount) gives what Close(a) alone gives when
\* amount > Balance, and what Withdraw(a, amount) followed by Close(a) gives
\* when amount <= Balance: the same closed account and the same final a.
WithdrawAndCloseEquivalence ==
    last.op = "WithdrawAndClose" =>
        LET a == last.before
            w == Withdraw(a, last.amount)
            c == IF last.amount > a.Balance THEN Close(a) ELSE Close(w.self)
        IN  /\ last.amount <= a.Balance => w.ok
            /\ Target = c.self
            /\ Returned = c.ret
            /\ Returned.State = closed
            /\ Returned.Balance =
                   IF last.amount > a.Balance THEN a.Balance
                   ELSE a.Balance - last.amount

\* WithdrawAndClose was called with more than the Balance and returned a
\* closed account all the same.
WithdrawAndCloseOverdrawn ==
    /\ last.op = "WithdrawAndClose"
    /\ last.amount > last.before.Balance
    /\ Returned.State = closed
    /\ Returned.Balance = last.before.Balance

\* C5: Activate, ActivatePending and ActivateClosed return an active account
\* with the ID and Balance of their argument, and every pending or closed
\* account satisfies Activate's constraint.
ActivateCopies ==
    /\ last.op \in ActivateOps =>
        /\ last.ok
        /\ Returned = Account(active, last.before.ID, last.before.Balance)
    /\ \A i \in DOMAIN accounts :
        accounts[i].State \in {pending, closed} => CanActivate(accounts[i])

\* A closed account with a Balance was reactivated by Activate.
ClosedReactivated ==
    /\ last.op = "Activate"
    /\ last.before.State = closed
    /\ last.before.Balance > 0
    /\ Returned.State = active

\* C6: Close returns a closed account with the ID and Balance its argument
\* has at the call, and every active account satisfies Close's constraint.
CloseCopies ==
    /\ last.op = "Close" =>
        /\ last.ok
        /\ Returned = Account(closed, last.before.ID, last.before.Balance)
    /\ \A i \in DOMAIN accounts :
        accounts[i].State = active => CanClose(accounts[i])

\* An active account whose Balance a Deposit had changed was closed.
ClosedAfterDeposit ==
    /\ last.op = "Close"
    /\ last.before.Balance # constructed.Balance
    /\ last.before.Balance > 0
    /\ Returned.State = closed

\* C7: Deposit of an amount >= 0 leaves the account active with
\* Balance + amount and the same ID and reports no failure; no amount is
\* validated, so a negative amount is added as well.
DepositAdds ==
    last.op = "Deposit" =>
        /\ last.ok
        /\ Target = Account(active, last.before.ID,
                            last.before.Balance + last.amount)

\* A positive amount was deposited on an account with a positive Balance.
DepositedOnPositive ==
    /\ last.op = "Deposit"
    /\ last.amount > 0
    /\ last.before.Balance > 0

\* C8: every account object of the lineage carries the ID given at
\* construction.
IDImmutable ==
    \A i \in DOMAIN accounts : GetID(accounts[i]) = constructed.ID

\* A lineage of four objects: construction and three transitions.
LineageOfFour ==
    /\ Len(accounts) >= 4
    /\ \E i \in DOMAIN accounts : accounts[i].State = closed
    /\ \E i \in DOMAIN accounts : i > 1 /\ accounts[i].State = active

\* C9: Close and Activate leave their argument as it was, WithdrawAndClose
\* leaves it as its withdrawal left it, and an object that a transition was
\* applied to keeps its tag, so it satisfies exactly the constraints of that
\* state: it is unchanged by every later step that is not a call on itself.
SourceKept ==
    /\ last.op \in ActivateOps \cup {"Close"} => Target = last.before
    /\ last.op = "WithdrawAndClose" =>
        Target = Withdraw(last.before, last.amount).self
    /\ \A j \in DOMAIN accounts :
        origin[j] # 0 =>
            LET src == accounts[origin[j]]
            IN  /\ accounts[j].State = closed =>
                    /\ src.State = active
                    /\ CanDeposit(src) /\ CanWithdraw(src) /\ CanClose(src)
                    /\ ~CanActivate(src)
                /\ accounts[j].State = active =>
                    /\ src.State \in {pending, closed}
                    /\ CanActivate(src)
                    /\ ~CanDeposit(src) /\ ~CanWithdraw(src) /\ ~CanClose(src)

\* An active account that had already been closed was closed once more.
ClosedTwice ==
    /\ last.op = "Close"
    /\ \E j \in DOMAIN accounts :
        /\ j # last.ret
        /\ origin[j] = last.acc
        /\ accounts[j].State = closed

\* C10: for a pending account p, Activate(Close(Activate(p))) is an active
\* account with the ID and Balance of p.
RoundTripOps == <<"Activate", "Close", "Activate">>

RoundTrip ==
    (expr.ops = RoundTripOps /\ expr.arg.State = pending) =>
        /\ Returned = Account(active, expr.arg.ID, expr.arg.Balance)
        /\ Returned = Activate(Close(Activate(expr.arg).ret).ret).ret

\* The round trip was made from a pending account with a Balance.
RoundTripMade ==
    /\ expr.ops = RoundTripOps
    /\ expr.arg.State = pending
    /\ expr.arg.Balance > 0
    /\ Len(accounts) = 4

\* C11: no state is terminal: on every account object a transition is
\* accepted (pending -> active, active -> closed, closed -> active), so while
\* the run may still make a call one can be made on each object; Activate is
\* accepted on every closed account and returns an active one.
NoTerminalState ==
    \A i \in DOMAIN accounts :
        /\ accounts[i].State = pending =>
            CanActivate(accounts[i]) /\ Activate(accounts[i]).ret.State = active
        /\ accounts[i].State = active =>
            CanClose(accounts[i]) /\ Close(accounts[i]).ret.State = closed
        /\ accounts[i].State = closed =>
            CanActivate(accounts[i]) /\ Activate(accounts[i]).ret.State = active
        /\ ncalls < MaxCalls => ENABLED (CallClose(i) \/ CallActivate(i))

\* The cycle active -> closed -> active was made twice in a row.
CycleOps == <<"Close", "Activate", "Close", "Activate">>

CycleRepeated ==
    /\ expr.ops = CycleOps
    /\ expr.arg.State = active
    /\ Returned.State = active
    /\ Returned.Balance = expr.arg.Balance

\* C15: the account a transition returns is a new object holding the
\* Balance its source has at that moment (after the withdrawal, for
\* WithdrawAndClose), and a call writes no object but its own argument: a
\* later Deposit or Withdraw on the source leaves the returned account as it
\* is, so Activate of a closed account gives the Balance of the moment of
\* Close.
SnapshotStep ==
    /\ \A j \in DOMAIN accounts : j # last'.acc => accounts'[j] = accounts[j]
    /\ last'.op \in TransitionOps =>
        /\ last'.ret = Len(accounts) + 1
        /\ Len(accounts') = Len(accounts) + 1
        /\ accounts'[last'.ret].Balance = accounts'[last'.acc].Balance
        /\ accounts'[last'.ret].ID = accounts[last'.acc].ID
    /\ last'.op \in {"Deposit", "Withdraw"} => Len(accounts') = Len(accounts)

TransitionsSnapshot == [][SnapshotStep]_vars

\* A closed account was activated after its source had been changed: the
\* new account has the Balance of the closed one, not of the source.
ActivatedStaleSnapshot ==
    /\ last.op \in ActivateOps
    /\ last.before.State = closed
    /\ origin[last.acc] # 0
    /\ accounts[origin[last.acc]].Balance # Target.Balance
    /\ Returned.Balance = Target.Balance

\* C16: no call returns a pending account: every object a call allocated is
\* active or closed, allocated along one of the edges pending -> active,
\* active -> closed, closed -> active; Deposit and Withdraw keep the tag
\* active.
Edges == {<<pending, active>>, <<active, closed>>, <<closed, active>>}

PendingEntryOnly ==
    /\ \A j \in DOMAIN accounts :
        origin[j] # 0 =>
            /\ accounts[j].State \in {active, closed}
            /\ <<accounts[origin[j]].State, accounts[j].State>> \in Edges
    /\ last.op \in TransitionOps => Returned.State # pending
    /\ last.op \in {"Deposit", "Withdraw"} =>
        Target.State = active /\ last.before.State = active

\* All three edges were taken, starting from a pending account.
AllEdgesTaken ==
    \E i, j, k \in DOMAIN accounts :
        /\ origin[i] = 1 /\ origin[j] = i /\ origin[k] = j
        /\ accounts[1].State = pending
        /\ accounts[i].State = active
        /\ accounts[j].State = closed
        /\ accounts[k].State = active

\* C14: while every call is made on the handle returned last, the Balance
\* behind the current handle is the constructed Balance plus the amounts
\* deposited minus the amounts of the withdrawals that succeeded; failed
\* withdrawals, Close and Activate add nothing.  (The scenario of the claim,
\* 100 + 50 - 25 = 125, is the witness scaled to 1 + 2 - 1 = 2.)
LedgerBalances ==
    ledger.linear =>
        /\ ledger.handle \in DOMAIN accounts
        /\ accounts[ledger.handle].ID = constructed.ID
        /\ accounts[ledger.handle].Balance =
               constructed.Balance + ledger.deposited - ledger.withdrawn

\* active -> Deposit 2 -> Withdraw 1 (success) -> Close -> Activate ends as
\* an active account with the ID and 1 + 2 - 1.
LifecycleScenario ==
    /\ constructed = Account(active, "ACT-1", 1)
    /\ ledger = [linear |-> TRUE, handle |-> 3, deposited |-> 2, withdrawn |-> 1]
    /\ expr.ops = <<"Close", "Activate">>
    /\ accounts[3] = Account(active, "ACT-1", 2)

\* C12 as claimed: no call panics, and only Withdraw reports a failure.
NoCallPanics ==
    /\ ~last.panic
    /\ ~last.ok => last.op = "Withdraw"

\* C12 as amended: a call whose argument points to an account never panics
\* and reports a failure only if it is a Withdraw of more than the Balance,
\* through its boolean result; the other operations and the accessors
\* complete whenever their constraint accepts the argument.  A call panics
\* only when its argument is a nil pointer.
TotalOnAccounts ==
    /\ last.panic => last.acc = 0
    /\ last.acc # 0 =>
        /\ ~last.panic
        /\ ~last.ok => (last.op = "Withdraw" /\ last.amount > last.before.Balance)
    /\ last.op = "GetBalance" /\ last.acc # 0 => last.value = Target.Balance
    /\ last.op = "GetID" /\ last.acc # 0 => last.value = Target.ID
    /\ (ncalls < MaxCalls /\ ~last.panic) =>
        \A i \in DOMAIN accounts :
            /\ ENABLED CallGetBalance(i)
            /\ ENABLED CallGetID(i)
            /\ accounts[i].State = active =>
                /\ ENABLED CallClose(i)
                /\ \A amount \in Amounts :
                    /\ ENABLED CallDeposit(i, amount)
                    /\ ENABLED CallWithdraw(i, amount)
                    /\ ENABLED CallWithdrawAndClose(i, amount)
            /\ accounts[i].State \in pendingOrClosed => ENABLED CallActivate(i)

\* A Withdraw on an account failed through its result, without a panic
\* and without a write, and the caller can go on to read the Balance.
RefusedWithoutPanic ==
    /\ last.op = "Withdraw"
    /\ last.acc # 0
    /\ ~last.ok /\ ~last.panic
    /\ Target = last.before
    /\ ENABLED CallGetBalance(last.acc)

\* C13: when the two calls did not overlap (single-owner, sequential
\* access), their outcome is that of one of the two sequential orders and,
\* without a negative amount, Balance stays >= 0; the calls are not atomic:
\* overlapping calls reach outcomes of no sequential order (the witness).
SequentialIsSerial ==
    (BothDone /\ ~Overlapped) =>
        /\ Outcome \in {Serial(1, 2), Serial(2, 1)}
        /\ (\A t \in Threads : threads[t].amount >= 0) => accounts[1].Balance >= 0

\* Two overlapping Withdraws both succeeded although their sum exceeds the
\* Balance, which is left negative: the outcome of no sequential order.
RacyDoubleWithdraw ==
    /\ BothDone /\ Overlapped
    /\ \A t \in Threads :
        threads[t].op = "Withdraw" /\ threads[t].ok /\ threads[t].amount > 0
    /\ threads[1].amount + threads[2].amount > constructed.Balance
    /\ accounts[1].Balance < 0
    /\ Outcome \notin {Serial(1, 2), Serial(2, 1)}

\* Two overlapping Deposits of which one is lost.
LostUpdate ==
    /\ BothDone /\ Overlapped
    /\ \A t \in Threads : threads[t].op = "Deposit" /\ threads[t].amount > 0
    /\ accounts[1].Balance < constructed.Balance + threads[1].amount + threads[2].amount
    /\ Outcome \notin {Serial(1, 2), Serial(2, 1)}

\* C17: in package main, Activate was accepted only on a PendingState
\* account and Deposit, Withdraw and Close only on an ActiveState account;
\* a ClosedState account satisfies no constraint, so no Activate, Deposit,
\* Withdraw or Close can be called on it and only the accessors can: closed
\* is terminal and such an account stays as it was allocated.
MainMutators(i) ==
    \/ MainCallActivate(i)
    \/ MainCallClose(i)
    \/ \E amount \in MainAmounts : MainCallDeposit(i, amount)
    \/ \E amount \in MainAmounts : MainCallWithdraw(i, amount)

MainClosedTerminal ==
    /\ last.op = "Activate" => last.before.State = PendingState
    /\ last.op \in {"Deposit", "Withdraw", "Close"} =>
        last.before.State = ActiveState
    /\ \A i \in DOMAIN accounts :
        /\ accounts[i].State = ActiveState => ~MainCanActivate(accounts[i])
        /\ accounts[i].State = PendingState =>
            /\ ~MainCanDeposit(accounts[i])
            /\ ~MainCanWithdraw(accounts[i])
            /\ ~MainCanClose(accounts[i])
        /\ accounts[i].State = ClosedState =>
            /\ ~MainCanActivate(accounts[i])
            /\ ~MainCanDeposit(accounts[i])
            /\ ~MainCanWithdraw(accounts[i])
            /\ ~MainCanClose(accounts[i])
            /\ ~ENABLED MainMutators(i)
            /\ ncalls < MaxCalls =>
                ENABLED MainCallGetBalance(i) /\ ENABLED MainCallGetID(i)
            /\ \A j \in DOMAIN accounts : origin[j] # i
            /\ i = 2 => accounts[i] = closedAcc

\* main's run, then a read: Deposit 50, Withdraw 25 and Close on activeAcc,
\* and GetBalance on the closed account gives 125.
MainClosedRead ==
    /\ last.op = "GetBalance"
    /\ Target.State = ClosedState
    /\ origin[last.acc] = 1
    /\ last.value = 125
    /\ ncalls = 4

\* C18: every QueueType the caller obtains (from a constructor, from
\* ParseQueueType in either outcome, filled in by UnmarshalJSON) has its id
\* in 1..4, and String and MarshalJSON never reach the panic.
PanicUnreachable ==
    /\ queue.q.id \in 1..4
    /\ ~queue.panic

\* C19: ParseQueueType(q.String()) returns q and no error for the four
\* queue types and String is injective on them; ParseQueueType returns an
\* error for every other string, and UnmarshalJSON of a document that holds
\* such a string returns that error and leaves its receiver as it was.
NameRoundTrip ==
    /\ \A c \in Constructors :
        /\ ~String(c).panic
        /\ ParseQueueType(String(c).s) = [q |-> c, err |-> NoError]
        /\ \A d \in Constructors : String(c).s = String(d).s => c = d
    /\ \A str \in Strings \ Names : ParseQueueType(str).err # NoError
    /\ queue.op = "ParseQueueType" =>
        /\ queue.err = NoError <=> queue.arg \in Names
        /\ queue.err = NoError => String(queue.q).s = queue.arg
        /\ queue.echo => (queue.err = NoError /\ queue.q = queue.prev)
    /\ queue.op = "UnmarshalJSON" =>
        LET u == JSONUnmarshalString(queue.arg)
        IN  /\ (u.err = NoError /\ u.s \notin Names) =>
                /\ queue.err = ParseQueueType(u.s).err
                /\ queue.err # NoError
                /\ queue.q = queue.prev
            /\ queue.err # NoError => queue.q = queue.prev
            /\ queue.echo => (queue.err = NoError /\ queue.q = queue.prev)
            /\ (u.err = NoError /\ u.s \in Names) =>
                (queue.err = NoError /\ String(queue.q).s = u.s)

\* UnmarshalJSON of "fifo" returned ParseQueueType's error and left a
\* receiver that held another queue type as it was.
NearMissRejected ==
    /\ queue.op = "UnmarshalJSON"
    /\ queue.arg = JSONMarshalString(ToLower(StrFIFO))
    /\ queue.err = ParseQueueType(ToLower(StrFIFO)).err
    /\ queue.err # NoError
    /\ queue.q = queue.prev
    /\ queue.q = RoundRobin
====
